---- MODULE Spec2Model ----
(***************************************************************************)
(* A model of src/src/App.tsx: the bouncing-balls React component.         *)
(*                                                                         *)
(* Numbers.  Math.random() is modelled as k / RandDenom for an integer     *)
(* 0 <= k < RandDenom, so every coordinate and velocity the program        *)
(* computes is a multiple of 1/RandDenom pixel.  Coordinates, velocities   *)
(* and the radius are therefore kept as integers counting 1/RandDenom px   *)
(* ("units"); canvas.width and canvas.height are integers counting pixels, *)
(* as in the DOM.  Px(n) converts pixels to units.                         *)
(*                                                                         *)
(* React.  The state is the one after the first render has been committed  *)
(* (refs attached, passive effects not yet run).  A click on the button is *)
(* a discrete event: the re-render and both halves of the play/pause       *)
(* effect (cleanup of the old one, body of the new one) run in one step.   *)
(* Tear-down is two steps, because React detaches refs when the unmount is *)
(* committed and may run the passive effect cleanups later: in between,    *)
(* canvasRef.current is null while a frame callback and the resize         *)
(* listener are still registered.                                          *)
(***************************************************************************)
EXTENDS Integers, Sequences, FiniteSets

VARIABLES
    phase,          \* "rendered" | "mounted" | "detached" | "unmounted"
    canvasRef,      \* [attached, width, height]: canvasRef.current (null when not attached)
    ballsRef,       \* ballsRef.current: the sequence of balls
    animationRef,   \* animationRef.current: 0 for undefined, else a callback id
    isPlaying,      \* React state isPlaying
    ballCount,      \* React state ballCount (the number the header shows)
    rafQueue,       \* the browser's list of pending animation frame callbacks
    listening,      \* whether handleResize is registered on window
    lastOp,         \* history: the operation that produced this state
    prevBalls,      \* history: ballsRef.current before the last frame callback
    ctxSeen,        \* history: the last frame callback got a 2D context
    drew            \* history: the last frame callback painted the canvas

vars == <<phase, canvasRef, ballsRef, animationRef, isPlaying, ballCount,
          rafQueue, listening, lastOp, prevBalls, ctxSeen, drew>>

----------------------------------------------------------------------------
(* Program constants *)

BALL_COUNT == 20

BALL_RADIUS == 12

SPEED_MULTIPLIER == 2

colors == << "#FF6B6B", "#4ECDC4", "#45B7D1", "#96CEB4", "#FECA57",
             "#FF9FF3", "#54A0FF", "#5F27CD", "#00D2D3", "#FF9F43" >>

(* Bounds of the model *)

\* Math.random() returns one of 0/RandDenom .. (RandDenom-1)/RandDenom.
RandDenom == 3

\* The number of distinct hidden generator states Math.random() may start from.
MaxSeed == 3

\* container.clientWidth and container.clientHeight, in pixels: smaller than,
\* equal to and larger than the diameter of a ball.
Dims == {20, 24, 26}

----------------------------------------------------------------------------
(* Arithmetic *)

Px(n) == n * RandDenom

Max(a, b) == IF a >= b THEN a ELSE b

Min(a, b) == IF a <= b THEN a ELSE b

RECURSIVE Pow(_, _)
Pow(b, e) == IF e = 0 THEN 1 ELSE b * Pow(b, e - 1)

----------------------------------------------------------------------------
(* Math.random *)

\* initializeBalls calls Math.random() five times per ball: x, y, vx, vy, color.
DrawsPerBall == 5

\* The numerator k of the n-th value (n = 0, 1, ...) a generator started in
\* state `seed` returns: a deterministic sequence, as the engine's generator is.
\* The five draws of ball 0 are the base-RandDenom digits of the seed; ball i's
\* are those shifted by i.
MathRandom(seed, n) ==
    ((seed \div Pow(RandDenom, n % DrawsPerBall)) + (n \div DrawsPerBall)) % RandDenom

getRandomColor(seed, n) ==
    colors[((MathRandom(seed, n) * Len(colors)) \div RandDenom) + 1]

----------------------------------------------------------------------------
(* initializeBalls *)

NewBall(canvas, seed, i) ==
    [ id     |-> i,
      x      |-> MathRandom(seed, DrawsPerBall * i) * (canvas.width - BALL_RADIUS * 2)
                     + Px(BALL_RADIUS),
      y      |-> MathRandom(seed, DrawsPerBall * i + 1) * (canvas.height - BALL_RADIUS * 2)
                     + Px(BALL_RADIUS),
      vx     |-> ((2 * MathRandom(seed, DrawsPerBall * i + 2) - RandDenom) * SPEED_MULTIPLIER) \div 2,
      vy     |-> ((2 * MathRandom(seed, DrawsPerBall * i + 3) - RandDenom) * SPEED_MULTIPLIER) \div 2,
      radius |-> Px(BALL_RADIUS),
      color  |-> getRandomColor(seed, DrawsPerBall * i + 4) ]

\* A loop that runs once too often.
M_InitializeBalls_OffByOne(canvas, seed, curBalls, curCount) ==
    IF ~canvas.attached
    THEN [balls |-> curBalls, ballCount |-> curCount]
    ELSE LET balls == [j \in 1..(BALL_COUNT + 1) |-> NewBall(canvas, seed, j - 1)]
         IN  [balls |-> balls, ballCount |-> Len(balls)]

\* The new array is counted but never stored in ballsRef.current.
M_InitializeBalls_NoStore(canvas, seed, curBalls, curCount) ==
    IF ~canvas.attached
    THEN [balls |-> curBalls, ballCount |-> curCount]
    ELSE LET balls == [j \in 1..BALL_COUNT |-> NewBall(canvas, seed, j - 1)]
         IN  [balls |-> curBalls, ballCount |-> Len(balls)]

\* The values of ballsRef.current and ballCount after initializeBalls().
InitializeBalls(canvas, seed, curBalls, curCount) ==
    IF ~canvas.attached
    THEN [balls |-> curBalls, ballCount |-> curCount]
    ELSE LET balls == [j \in 1..BALL_COUNT |-> NewBall(canvas, seed, j - 1)]
         IN  [balls |-> balls, ballCount |-> Len(balls)]

----------------------------------------------------------------------------
(* updateBalls *)

\* The wall contact leaves the ball where it went.
M_UpdateBall_NoClamp(ball, width, height) ==
    LET x1   == ball.x + ball.vx
        y1   == ball.y + ball.vy
        hitX == x1 <= ball.radius \/ x1 >= Px(width) - ball.radius
        hitY == y1 <= ball.radius \/ y1 >= Px(height) - ball.radius
    IN  [ball EXCEPT
            !.x  = x1,
            !.vx = IF hitX THEN -ball.vx ELSE ball.vx,
            !.y  = y1,
            !.vy = IF hitY THEN -ball.vy ELSE ball.vy]

\* The y test copied from the x test with canvas.width left in it.
M_UpdateBall_CopiedWidth(ball, width, height) ==
    LET x1   == ball.x + ball.vx
        y1   == ball.y + ball.vy
        hitX == x1 <= ball.radius \/ x1 >= Px(width) - ball.radius
        hitY == y1 <= ball.radius \/ y1 >= Px(width) - ball.radius
    IN  [ball EXCEPT
            !.x  = IF hitX THEN Max(ball.radius, Min(Px(width) - ball.radius, x1)) ELSE x1,
            !.vx = IF hitX THEN -ball.vx ELSE ball.vx,
            !.y  = IF hitY THEN Max(ball.radius, Min(Px(height) - ball.radius, y1)) ELSE y1,
            !.vy = IF hitY THEN -ball.vy ELSE ball.vy]

\* The clamp without the reflection.
M_UpdateBall_NoFlip(ball, width, height) ==
    LET x1   == ball.x + ball.vx
        y1   == ball.y + ball.vy
        hitX == x1 <= ball.radius \/ x1 >= Px(width) - ball.radius
        hitY == y1 <= ball.radius \/ y1 >= Px(height) - ball.radius
    IN  [ball EXCEPT
            !.x  = IF hitX THEN Max(ball.radius, Min(Px(width) - ball.radius, x1)) ELSE x1,
            !.y  = IF hitY THEN Max(ball.radius, Min(Px(height) - ball.radius, y1)) ELSE y1]

\* "ball.vx -= ball.vx" for "ball.vx = -ball.vx": the ball stops at the wall.
M_UpdateBall_Stop(ball, width, height) ==
    LET x1   == ball.x + ball.vx
        y1   == ball.y + ball.vy
        hitX == x1 <= ball.radius \/ x1 >= Px(width) - ball.radius
        hitY == y1 <= ball.radius \/ y1 >= Px(height) - ball.radius
    IN  [ball EXCEPT
            !.x  = IF hitX THEN Max(ball.radius, Min(Px(width) - ball.radius, x1)) ELSE x1,
            !.vx = IF hitX THEN ball.vx - ball.vx ELSE ball.vx,
            !.y  = IF hitY THEN Max(ball.radius, Min(Px(height) - ball.radius, y1)) ELSE y1,
            !.vy = IF hitY THEN ball.vy - ball.vy ELSE ball.vy]

\* The body of the forEach: one ball, with canvas.width and canvas.height in pixels.
UpdateBall(ball, width, height) ==
    LET x1   == ball.x + ball.vx
        y1   == ball.y + ball.vy
        hitX == x1 <= ball.radius \/ x1 >= Px(width) - ball.radius
        hitY == y1 <= ball.radius \/ y1 >= Px(height) - ball.radius
    IN  [ball EXCEPT
            !.x  = IF hitX THEN Max(ball.radius, Min(Px(width) - ball.radius, x1)) ELSE x1,
            !.vx = IF hitX THEN -ball.vx ELSE ball.vx,
            !.y  = IF hitY THEN Max(ball.radius, Min(Px(height) - ball.radius, y1)) ELSE y1,
            !.vy = IF hitY THEN -ball.vy ELSE ball.vy]

\* The early return on a null canvas forgotten: the last known size is used.
M_UpdateBalls_NoGuard(canvas, balls) ==
    [j \in DOMAIN balls |-> UpdateBall(balls[j], canvas.width, canvas.height)]

\* The value of ballsRef.current after updateBalls().
UpdateBalls(canvas, balls) ==
    IF ~canvas.attached
    THEN balls
    ELSE [j \in DOMAIN balls |-> UpdateBall(balls[j], canvas.width, canvas.height)]

----------------------------------------------------------------------------
(* drawBalls, resizeCanvas *)

\* Whether drawBalls() paints: it returns early without a canvas or a context.
\* `ctx` is whether canvas.getContext('2d') returns a context.
DrawBalls(canvas, ctx) == canvas.attached /\ ctx

\* The canvas after resizeCanvas(), the container being cw x ch pixels.
ResizeCanvas(canvas, cw, ch) ==
    IF ~canvas.attached
    THEN canvas
    ELSE [canvas EXCEPT !.width = cw, !.height = ch]

----------------------------------------------------------------------------
(* requestAnimationFrame, cancelAnimationFrame *)

\* The id requestAnimationFrame returns.  The browser counts upwards; since ids
\* are only ever compared with one another, the model takes the least positive
\* id that no pending callback and no reference holds.
NextHandle(queue, ref) ==
    LET used == {cb.id : cb \in queue} \cup {ref}
    IN  CHOOSE n \in 1..(Cardinality(used) + 1) :
            n \notin used /\ \A m \in 1..(n - 1) : m \in used

\* A pending callback: its id and the isPlaying its closure captured.
Callback(id, playing) == [id |-> id, playing |-> playing]

CancelAnimationFrame(queue, id) == {cb \in queue : cb.id # id}


----------------------------------------------------------------------------
(* animate: the frame callback *)

\* The id requestAnimationFrame returns is dropped instead of being stored in
\* animationRef.current.
M_Animate_NoStore(playing, canvas, ctx, balls, queue, ref) ==
    IF playing
    THEN LET id == NextHandle(queue, ref)
         IN  [ balls |-> UpdateBalls(canvas, balls),
               drew  |-> DrawBalls(canvas, ctx),
               queue |-> queue \cup {Callback(id, playing)},
               ref   |-> ref ]
    ELSE [balls |-> balls, drew |-> FALSE, queue |-> queue, ref |-> ref]

\* The callback does not schedule its successor.
M_Animate_NoReschedule(playing, canvas, ctx, balls, queue, ref) ==
    IF playing
    THEN [ balls |-> UpdateBalls(canvas, balls),
           drew  |-> DrawBalls(canvas, ctx),
           queue |-> queue,
           ref   |-> ref ]
    ELSE [balls |-> balls, drew |-> FALSE, queue |-> queue, ref |-> ref]

\* The successor is scheduled only when the frame's work was done.
M_Animate_StopWithoutCanvas(playing, canvas, ctx, balls, queue, ref) ==
    IF playing /\ canvas.attached
    THEN LET id == NextHandle(queue, ref)
         IN  [ balls |-> UpdateBalls(canvas, balls),
               drew  |-> DrawBalls(canvas, ctx),
               queue |-> queue \cup {Callback(id, playing)},
               ref   |-> id ]
    ELSE [balls |-> balls, drew |-> FALSE, queue |-> queue, ref |-> ref]

\* animate() of the render whose isPlaying was `playing`, run with the callback
\* list `queue` (the running callback already taken off it): the new
\* ballsRef.current, whether the canvas was painted, the new callback list and
\* the new animationRef.current.
Animate(playing, canvas, ctx, balls, queue, ref) ==
    IF playing
    THEN LET id == NextHandle(queue, ref)
         IN  [ balls |-> UpdateBalls(canvas, balls),
               drew  |-> DrawBalls(canvas, ctx),
               queue |-> queue \cup {Callback(id, playing)},
               ref   |-> id ]
    ELSE [balls |-> balls, drew |-> FALSE, queue |-> queue, ref |-> ref]

----------------------------------------------------------------------------
(* The play/pause effect *)

\* The cleanup cancels nothing.
M_PlayEffectCleanup_NoCancel(queue, ref) == queue

\* The effect's cleanup: the callback list after it.
PlayEffectCleanup(queue, ref) ==
    IF ref # 0 THEN CancelAnimationFrame(queue, ref) ELSE queue

\* The effect's body for a render whose isPlaying is `playing`: the new callback
\* list and the new animationRef.current.
PlayEffect(playing, queue, ref) ==
    IF playing
    THEN LET id == NextHandle(queue, ref)
         IN  [queue |-> queue \cup {Callback(id, playing)}, ref |-> id]
    ELSE [queue |-> IF ref # 0 THEN CancelAnimationFrame(queue, ref) ELSE queue,
          ref   |-> ref]

----------------------------------------------------------------------------
(* The component *)

Init ==
    /\ phase = "rendered"
    /\ canvasRef = [attached |-> TRUE, width |-> 300, height |-> 150]
    /\ ballsRef = << >>
    /\ animationRef = 0
    /\ isPlaying = TRUE
    /\ ballCount = BALL_COUNT
    /\ rafQueue = {}
    /\ listening = FALSE
    /\ lastOp = "render"
    /\ prevBalls = << >>
    /\ ctxSeen = FALSE
    /\ drew = FALSE

\* The passive effects of the first render: the initialization effect
\* (resizeCanvas, initializeBalls, addEventListener) and the play/pause effect.
Mount ==
    /\ phase = "rendered"
    /\ \E cw \in Dims, ch \in Dims, seed \in 0..(MaxSeed - 1) :
          LET canvas == ResizeCanvas(canvasRef, cw, ch)
              init   == InitializeBalls(canvas, seed, ballsRef, ballCount)
              play   == PlayEffect(isPlaying, rafQueue, animationRef)
          IN  /\ canvasRef' = canvas
              /\ ballsRef' = init.balls
              /\ ballCount' = init.ballCount
              /\ prevBalls' = init.balls
              /\ rafQueue' = play.queue
              /\ animationRef' = play.ref
    /\ listening' = TRUE
    /\ phase' = "mounted"
    /\ lastOp' = "mount"
    /\ ctxSeen' = FALSE
    /\ drew' = FALSE
    /\ UNCHANGED isPlaying

\* The browser runs one pending animation frame callback.
FrameCallback ==
    /\ \E cb \in rafQueue, ctx \in BOOLEAN :
          LET r == Animate(cb.playing, canvasRef, ctx, ballsRef,
                           rafQueue \ {cb}, animationRef)
          IN  /\ ballsRef' = r.balls
              /\ drew' = r.drew
              /\ rafQueue' = r.queue
              /\ animationRef' = r.ref
              /\ ctxSeen' = (canvasRef.attached /\ ctx)
    /\ prevBalls' = ballsRef
    /\ lastOp' = "frame"
    /\ UNCHANGED <<phase, canvasRef, isPlaying, ballCount, listening>>

\* A click on the button: setIsPlaying(!isPlaying), the re-render, the cleanup
\* of the previous play/pause effect and the body of the new one.
TogglePlayPause ==
    /\ phase = "mounted"
    /\ isPlaying' = ~isPlaying
    /\ LET cleaned == PlayEffectCleanup(rafQueue, animationRef)
           play    == PlayEffect(~isPlaying, cleaned, animationRef)
       IN  /\ rafQueue' = play.queue
           /\ animationRef' = play.ref
    /\ prevBalls' = ballsRef
    /\ lastOp' = "toggle"
    /\ ctxSeen' = FALSE
    /\ drew' = FALSE
    /\ UNCHANGED <<phase, canvasRef, ballsRef, ballCount, listening>>

\* A resize event of the window: handleResize.
HandleResize ==
    /\ listening
    /\ \E cw \in Dims, ch \in Dims, seed \in 0..(MaxSeed - 1) :
          LET canvas == ResizeCanvas(canvasRef, cw, ch)
              init   == InitializeBalls(canvas, seed, ballsRef, ballCount)
          IN  /\ canvasRef' = canvas
              /\ ballsRef' = init.balls
              /\ ballCount' = init.ballCount
              /\ prevBalls' = init.balls
    /\ lastOp' = "resize"
    /\ ctxSeen' = FALSE
    /\ drew' = FALSE
    /\ UNCHANGED <<phase, animationRef, isPlaying, rafQueue, listening>>

\* React commits the unmount: the canvas ref is detached.
UnmountCommit ==
    /\ phase = "mounted"
    /\ phase' = "detached"
    /\ canvasRef' = [canvasRef EXCEPT !.attached = FALSE]
    /\ prevBalls' = ballsRef
    /\ lastOp' = "unmountCommit"
    /\ ctxSeen' = FALSE
    /\ drew' = FALSE
    /\ UNCHANGED <<ballsRef, animationRef, isPlaying, ballCount, rafQueue, listening>>

\* React runs the effect cleanups of the unmounted component.
UnmountCleanup ==
    /\ phase = "detached"
    /\ phase' = "unmounted"
    /\ listening' = FALSE
    /\ rafQueue' = PlayEffectCleanup(rafQueue, animationRef)
    /\ prevBalls' = ballsRef
    /\ lastOp' = "unmountCleanup"
    /\ ctxSeen' = FALSE
    /\ drew' = FALSE
    /\ UNCHANGED <<canvasRef, ballsRef, animationRef, isPlaying, ballCount>>

Next ==
    \/ Mount
    \/ FrameCallback
    \/ TogglePlayPause
    \/ HandleResize
    \/ UnmountCommit
    \/ UnmountCleanup

Spec == Init /\ [][Next]_vars

\* The browser runs a pending animation frame callback at the next repaint.
LiveSpec == Spec /\ WF_vars(FrameCallback)

----------------------------------------------------------------------------
(* updateBalls on its own: one ball and one canvas drawn from bounded sets,  *)
(* then one call of updateBalls.                                            *)

\* <<canvas.width, canvas.height>>: the scenario of the specification, ordinary
\* sizes, a canvas of exactly one diameter, and canvases narrower or lower than
\* a ball.
StepViewports == { <<400, 300>>, <<30, 40>>, <<24, 24>>, <<10, 30>>, <<30, 10>> }

\* Coordinates on an axis of `extent` pixels: outside the left/top wall, on and
\* next to either wall, and the middle.
StepCoords(extent) ==
    { Px(5),
      Px(BALL_RADIUS) - 1, Px(BALL_RADIUS), Px(BALL_RADIUS) + 1,
      Px(extent) \div 2,
      Px(extent) - Px(BALL_RADIUS) - 1, Px(extent) - Px(BALL_RADIUS),
      Px(extent) - Px(BALL_RADIUS) + 1 }

StepVelocities == { -Px(3), -1, 0, 1, Px(3) }

StepInit ==
    /\ \E vp \in StepViewports :
          /\ canvasRef = [attached |-> TRUE, width |-> vp[1], height |-> vp[2]]
          /\ \E x \in StepCoords(vp[1]), y \in StepCoords(vp[2]),
                vx \in StepVelocities, vy \in StepVelocities :
                ballsRef = << [ id |-> 0, x |-> x, y |-> y, vx |-> vx, vy |-> vy,
                                radius |-> Px(BALL_RADIUS), color |-> colors[1] ] >>
    /\ prevBalls = ballsRef
    /\ phase = "mounted"
    /\ animationRef = 0
    /\ isPlaying = TRUE
    /\ ballCount = BALL_COUNT
    /\ rafQueue = {}
    /\ listening = FALSE
    /\ lastOp = "input"
    /\ ctxSeen = FALSE
    /\ drew = FALSE

StepUpdate ==
    /\ lastOp = "input"
    /\ ballsRef' = UpdateBalls(canvasRef, ballsRef)
    /\ prevBalls' = ballsRef
    /\ lastOp' = "updateBalls"
    /\ UNCHANGED <<phase, canvasRef, animationRef, isPlaying, ballCount,
                   rafQueue, listening, ctxSeen, drew>>

StepNext == StepUpdate

StepSpec == StepInit /\ [][StepNext]_vars

----------------------------------------------------------------------------
(* Properties *)

\* c lies in [radius, extent - radius] on an axis of `extent` pixels.
InBounds(c, radius, extent) == radius <= c /\ c <= Px(extent) - radius

\* c lies strictly inside (radius, extent - radius).
StrictlyInside(c, radius, extent) == radius < c /\ c < Px(extent) - radius

\* The axis is shorter than a ball's diameter.
Degenerate(radius, extent) == Px(extent) < 2 * radius

Positions(balls) == [j \in DOMAIN balls |-> <<balls[j].x, balls[j].y>>]

Running == isPlaying /\ phase = "mounted"

\* C1 as stated: after updateBalls every ball satisfies
\* radius <= x <= width - radius and radius <= y <= height - radius, for every
\* canvas size, also one smaller than a diameter.
C1_Original ==
    lastOp = "updateBalls" =>
        \A j \in DOMAIN ballsRef :
            /\ InBounds(ballsRef[j].x, ballsRef[j].radius, canvasRef.width)
            /\ InBounds(ballsRef[j].y, ballsRef[j].radius, canvasRef.height)

\* C1 amended: after updateBalls, on each axis at least a diameter long the
\* coordinate lies in [radius, extent - radius]; on a shorter axis the wall test
\* always fires and the coordinate is exactly radius.
C1_Amended ==
    lastOp = "updateBalls" =>
        \A j \in DOMAIN ballsRef :
            /\ IF Degenerate(ballsRef[j].radius, canvasRef.width)
               THEN ballsRef[j].x = ballsRef[j].radius
               ELSE InBounds(ballsRef[j].x, ballsRef[j].radius, canvasRef.width)
            /\ IF Degenerate(ballsRef[j].radius, canvasRef.height)
               THEN ballsRef[j].y = ballsRef[j].radius
               ELSE InBounds(ballsRef[j].y, ballsRef[j].radius, canvasRef.height)

\* A step on a canvas 10 px wide and 30 px high that clamped a ball on both axes.
C1_Witness ==
    /\ lastOp = "updateBalls"
    /\ canvasRef.width = 10 /\ canvasRef.height = 30
    /\ ballsRef[1].x = Px(BALL_RADIUS)
    /\ prevBalls[1].y + prevBalls[1].vy > Px(30) - Px(BALL_RADIUS)
    /\ ballsRef[1].y = Px(30) - Px(BALL_RADIUS)

\* C2 as stated: a ball strictly interior before the step, with any velocity,
\* moves by exactly (vx, vy) and keeps its velocity.
C2_Original ==
    lastOp = "updateBalls" =>
        \A j \in DOMAIN ballsRef :
            ( /\ StrictlyInside(prevBalls[j].x, prevBalls[j].radius, canvasRef.width)
              /\ StrictlyInside(prevBalls[j].y, prevBalls[j].radius, canvasRef.height) )
            => /\ ballsRef[j].x = prevBalls[j].x + prevBalls[j].vx
               /\ ballsRef[j].y = prevBalls[j].y + prevBalls[j].vy
               /\ ballsRef[j].vx = prevBalls[j].vx
               /\ ballsRef[j].vy = prevBalls[j].vy

\* C2 amended: a ball strictly interior before the step whose advanced position
\* (x + vx, y + vy) is strictly interior too moves by exactly (vx, vy) and keeps
\* its velocity.
C2_Amended ==
    lastOp = "updateBalls" =>
        \A j \in DOMAIN ballsRef :
            ( /\ StrictlyInside(prevBalls[j].x, prevBalls[j].radius, canvasRef.width)
              /\ StrictlyInside(prevBalls[j].y, prevBalls[j].radius, canvasRef.height)
              /\ StrictlyInside(prevBalls[j].x + prevBalls[j].vx, prevBalls[j].radius,
                                canvasRef.width)
              /\ StrictlyInside(prevBalls[j].y + prevBalls[j].vy, prevBalls[j].radius,
                                canvasRef.height) )
            => /\ ballsRef[j].x = prevBalls[j].x + prevBalls[j].vx
               /\ ballsRef[j].y = prevBalls[j].y + prevBalls[j].vy
               /\ ballsRef[j].vx = prevBalls[j].vx
               /\ ballsRef[j].vy = prevBalls[j].vy

\* A moving ball that was strictly interior before the step and is after it.
C2_Witness ==
    /\ lastOp = "updateBalls"
    /\ prevBalls[1].vx # 0 /\ prevBalls[1].vy # 0
    /\ StrictlyInside(prevBalls[1].x, prevBalls[1].radius, canvasRef.width)
    /\ StrictlyInside(prevBalls[1].y, prevBalls[1].radius, canvasRef.height)
    /\ StrictlyInside(ballsRef[1].x, ballsRef[1].radius, canvasRef.width)
    /\ StrictlyInside(ballsRef[1].y, ballsRef[1].radius, canvasRef.height)
    /\ ballsRef[1].x = prevBalls[1].x + prevBalls[1].vx

\* C3: a ball at or beyond the left wall (x <= radius) moving left (vx < 0)
\* has, after the step, vx' = -vx and x' = radius, whatever its y state.
C3_LeftWall ==
    lastOp = "updateBalls" =>
        \A j \in DOMAIN ballsRef :
            (prevBalls[j].x <= prevBalls[j].radius /\ prevBalls[j].vx < 0)
            => /\ ballsRef[j].vx = -prevBalls[j].vx
               /\ ballsRef[j].x = ballsRef[j].radius

\* The scenario: 400 x 300, the ball at (5, 150) with velocity (-3, 0) ends at
\* x = 12 with vx = 3.
C3_Witness ==
    /\ lastOp = "updateBalls"
    /\ canvasRef.width = 400 /\ canvasRef.height = 300
    /\ prevBalls[1].x = Px(5) /\ prevBalls[1].y = Px(150)
    /\ prevBalls[1].vx = -Px(3) /\ prevBalls[1].vy = 0
    /\ ballsRef[1].x = Px(12) /\ ballsRef[1].vx = Px(3)
    /\ ballsRef[1].y = Px(150) /\ ballsRef[1].vy = 0

\* C4 as stated: after initializeBalls at startup or on a resize the set holds
\* BALL_COUNT balls, each within [radius, width - radius] x [radius, height - radius]
\* of the canvas as it then is.
C4_Original ==
    lastOp \in {"mount", "resize"} =>
        /\ Len(ballsRef) = BALL_COUNT
        /\ canvasRef.attached =>
              \A j \in DOMAIN ballsRef :
                  /\ InBounds(ballsRef[j].x, ballsRef[j].radius, canvasRef.width)
                  /\ InBounds(ballsRef[j].y, ballsRef[j].radius, canvasRef.height)

\* C4 amended: after initializeBalls at startup or on a resize the set holds
\* BALL_COUNT balls; on each axis at least a diameter long every ball lies in
\* [radius, extent - radius], and on a shorter axis in (extent - radius, radius].
C4_Amended ==
    lastOp \in {"mount", "resize"} =>
        /\ Len(ballsRef) = BALL_COUNT
        /\ canvasRef.attached =>
              \A j \in DOMAIN ballsRef :
                  /\ IF Degenerate(ballsRef[j].radius, canvasRef.width)
                     THEN /\ Px(canvasRef.width) - ballsRef[j].radius < ballsRef[j].x
                          /\ ballsRef[j].x <= ballsRef[j].radius
                     ELSE InBounds(ballsRef[j].x, ballsRef[j].radius, canvasRef.width)
                  /\ IF Degenerate(ballsRef[j].radius, canvasRef.height)
                     THEN /\ Px(canvasRef.height) - ballsRef[j].radius < ballsRef[j].y
                          /\ ballsRef[j].y <= ballsRef[j].radius
                     ELSE InBounds(ballsRef[j].y, ballsRef[j].radius, canvasRef.height)

\* A resize to 20 x 26 has re-created the set: a ball lies at x < radius (the
\* short axis), another at y > radius (the long axis).
C4_Witness ==
    /\ lastOp = "resize"
    /\ canvasRef.attached
    /\ canvasRef.width = 20 /\ canvasRef.height = 26
    /\ Len(ballsRef) = BALL_COUNT
    /\ \E j \in DOMAIN ballsRef : ballsRef[j].x < ballsRef[j].radius
    /\ \E j \in DOMAIN ballsRef : ballsRef[j].y > ballsRef[j].radius

\* C5 as stated: from pause to resume every ball's position is unchanged.
C5_Original ==
    [][(~isPlaying /\ ~isPlaying') => Positions(ballsRef') = Positions(ballsRef)]_vars

\* C5 amended: while paused no frame callback runs a step; the positions change
\* only when a resize re-creates the set.
C5_Amended ==
    [][(~isPlaying /\ lastOp' # "resize")
          => (lastOp' # "frame" /\ Positions(ballsRef') = Positions(ballsRef))]_vars

\* Paused by a click after at least one step had moved the balls.
C5_Witness ==
    /\ lastOp = "toggle"
    /\ ~isPlaying
    /\ phase = "mounted"
    /\ rafQueue = {}
    /\ animationRef > 1
    /\ Len(ballsRef) = BALL_COUNT

\* C6: at most one animation frame callback is pending, it is the one
\* animationRef.current names, and none is pending while paused or after the
\* tear-down.
C6_NoOrphan ==
    /\ Cardinality(rafQueue) <= 1
    /\ \A cb \in rafQueue : cb.id = animationRef
    /\ (~isPlaying \/ phase = "unmounted") => rafQueue = {}

\* The tear-down of a running component has cancelled the pending callback.
C6_Witness ==
    /\ phase = "unmounted"
    /\ lastOp = "unmountCleanup"
    /\ isPlaying
    /\ animationRef # 0
    /\ rafQueue = {}

\* C7 as stated: a frame callback that finds the display surface unavailable
\* (no canvas, or no 2D context) changes no ball, draws nothing and leaves the
\* loop scheduled.
C7_Original ==
    [][(lastOp' = "frame" /\ ~ctxSeen')
          => (ballsRef' = ballsRef /\ ~drew' /\ rafQueue' # {})]_vars

\* C7 amended: a frame callback that finds no canvas changes no ball, draws
\* nothing and leaves the loop scheduled; one that finds the canvas but no 2D
\* context draws nothing and leaves the loop scheduled (the step is taken).
C7_Amended ==
    [][lastOp' = "frame"
          => /\ ~canvasRef.attached
                  => (ballsRef' = ballsRef /\ ~drew' /\ rafQueue' # {})
             /\ ~ctxSeen' => (~drew' /\ rafQueue' # {})]_vars

\* A frame callback ran without a canvas: nothing moved, the loop is scheduled.
C7_Witness ==
    /\ lastOp = "frame"
    /\ ~canvasRef.attached
    /\ ballsRef = prevBalls
    /\ \E j \in DOMAIN ballsRef : ballsRef[j].vx # 0
    /\ ~drew
    /\ Cardinality(rafQueue) = 1

\* C8 as stated: ballCount equals the length of ballsRef.current in every state.
C8_Original == ballCount = Len(ballsRef)

\* C8 amended: ballCount equals the length of ballsRef.current in every state
\* after the first initialization; before it ballCount is BALL_COUNT while the
\* set is empty.
C8_Amended ==
    IF phase = "rendered"
    THEN ballCount = BALL_COUNT /\ Len(ballsRef) = 0
    ELSE ballCount = Len(ballsRef)

\* A resize has re-created the set and the header shows its length.
C8_Witness ==
    /\ lastOp = "resize"
    /\ canvasRef.attached
    /\ ballCount = BALL_COUNT
    /\ Len(ballsRef) = BALL_COUNT

\* C9: while running exactly one callback is pending (each frame callback has
\* scheduled one successor, each resume one callback), and if the component
\* stays running from some point on, frame callbacks run again and again.
C9_NeverStalls ==
    /\ [](Running => Cardinality(rafQueue) = 1)
    /\ (<>[]Running) => []<><<FrameCallback>>_vars

\* A frame callback of the running component has moved the balls and scheduled
\* its successor.
C9_Witness ==
    /\ Running
    /\ lastOp = "frame"
    /\ ballsRef # prevBalls
    /\ Cardinality(rafQueue) = 1
    /\ animationRef > 1

\* C10: no step other than a re-initialization changes |vx| or |vy| of any ball.
C10_SpeedPreserved ==
    [][lastOp' \notin {"mount", "resize"}
          => /\ DOMAIN ballsRef' = DOMAIN ballsRef
             /\ \A j \in DOMAIN ballsRef :
                   /\ ballsRef'[j].vx \in {ballsRef[j].vx, -ballsRef[j].vx}
                   /\ ballsRef'[j].vy \in {ballsRef[j].vy, -ballsRef[j].vy}]_vars

\* A frame callback bounced a ball off two walls at once.
C10_Witness ==
    /\ lastOp = "frame"
    /\ \E j \in DOMAIN ballsRef :
          /\ prevBalls[j].vx # 0 /\ ballsRef[j].vx = -prevBalls[j].vx
          /\ prevBalls[j].vy # 0 /\ ballsRef[j].vy = -prevBalls[j].vy

====
